---- MODULE Spec2Model ----
(***************************************************************************)
(* Model of the static analyzer of ai_driven_code_reviewer:                *)
(*   CodeParser    (src/code_parser.py)                                    *)
(*   ErrorDetector (src/error_detector.py)                                 *)
(*   AISuggestor._estimate_complexity (src/ai_suggestor.py)                *)
(*                                                                         *)
(* A source text is a sequence of lines; a line is an indentation level    *)
(* and one statement of the subset of Python the analyzer dispatches on.   *)
(* ast.parse turns a source text into a tree, kept as the sequence of its  *)
(* nodes in document (pre-)order, each with its depth; ast.walk is the     *)
(* breadth-first order of that tree.                                       *)
(***************************************************************************)
EXTENDS Integers, Sequences, FiniteSets, TLC

VARIABLES
    code,            \* the source text currently in the input area (app.py code_input)
    ast_tree,        \* CodeParser.ast_tree
    unused_vars,     \* ErrorDetector.unused_vars
    unused_imports,  \* ErrorDetector.unused_imports
    ret,             \* the last call: operation, arguments, returned value
    edits            \* number of edits made to the input so far

vars == <<code, ast_tree, unused_vars, unused_imports, ret, edits>>

(***************************************************************************)
(* Bounds                                                                  *)
(***************************************************************************)
MaxLines == 2
MaxEdits == 1

(***************************************************************************)
(* Python values                                                           *)
(***************************************************************************)
\* None is the empty tuple; a string built by an f-string is the sequence
\* of its parts; a tree is a non-empty sequence of nodes.
None == <<>>

\* an optional value: None or <<v>>
Some(v) == <<v>>

\* str(lineno) for SyntaxError.lineno, an optional line number
Str(lineno) == IF lineno = None THEN "None" ELSE ToString(lineno[1])

\* the empty dict {} and a dict with string keys (a record) are both
\* functions; the empty tuple is the function with the empty domain
EmptyDict == <<>>

(***************************************************************************)
(* Source text                                                             *)
(***************************************************************************)
\* expressions:  10 | id | id.path | id(arg) | id.join(arg) | id > 0 | lambda: 0
E(ek, id, arg) == [ek |-> ek, id |-> id, arg |-> arg]
Const      == E("const", "", "")
Rd(id)     == E("name", id, "")
Attr(id)   == E("attr", id, "")
Call0(id)  == E("call", id, "")
Call1(id, arg) == E("call", id, arg)
Meth(id, arg)  == E("attrcall", id, arg)
Cmp(id)    == E("cmp", id, "")
Lam        == E("lambda", "", "")

\* statements
S(kind, id, mod, asname, args, e) ==
    [kind |-> kind, id |-> id, mod |-> mod, asname |-> asname, args |-> args, e |-> e]
Import(mod, asname)        == S("import", "", mod, asname, <<>>, Const)
ImportFrom(mod, id, asname) == S("from", id, mod, asname, <<>>, Const)
Assign(id, e)     == S("assign", id, <<>>, "", <<>>, e)
SetAttr(id, e)    == S("setattr", id, <<>>, "", <<>>, e)
Def(id, args)     == S("def", id, <<>>, "", args, Const)
Class(id)         == S("class", id, <<>>, "", <<>>, Const)
IfS(e)            == S("if", "", <<>>, "", <<>>, e)
WhileS(e)         == S("while", "", <<>>, "", <<>>, e)
ForS(id, e)       == S("for", id, <<>>, "", <<>>, e)
ElseS             == S("else", "", <<>>, "", <<>>, Const)
TryS              == S("try", "", <<>>, "", <<>>, Const)
ExceptS           == S("except", "", <<>>, "", <<>>, Const)
ReturnS(e)        == S("return", "", <<>>, "", <<>>, e)
ExprS(e)          == S("expr", "", <<>>, "", <<>>, e)
PassS             == S("pass", "", <<>>, "", <<>>, Const)
Blank             == S("blank", "", <<>>, "", <<>>, Const)
\* a line the grammar rejects, e.g. "x = = 10"
Bad               == S("bad", "", <<>>, "", <<>>, Const)
\* a line holding a null byte
Nul               == S("nul", "", <<>>, "", <<>>, Const)

L(ind, st) == [ind |-> ind, st |-> st]

Headers == {"def", "class", "if", "while", "for", "else", "try", "except"}

(***************************************************************************)
(* Syntax tree                                                             *)
(***************************************************************************)
\* a node: its class, its depth in the tree, its line (0 for the classes
\* that carry none: Module, arguments) and the fields the analyzer reads
Nd(type, depth, lineno) == [type |-> type, depth |-> depth, lineno |-> lineno]

\* Name(id, ctx)
NameNd(id, ctx, d, ln) ==
    [type |-> "Name", depth |-> d, lineno |-> ln, id |-> id, ctx |-> ctx]

\* Attribute(value, attr): value is the id of the base when the base is a Name
AttributeNd(value, d, ln) ==
    [type |-> "Attribute", depth |-> d, lineno |-> ln, value |-> value]

\* Call(func, args): func is the id of the callee when the callee is a Name,
\* "" otherwise
CallNd(func, d, ln) == [type |-> "Call", depth |-> d, lineno |-> ln, func |-> func]

\* a dotted name is the sequence of its segments: "os.path" is <<"os", "path">>
Alias(name, asname) == [name |-> name, asname |-> asname]

\* Import(names)
ImportNd(names, d, ln) ==
    [type |-> "Import", depth |-> d, lineno |-> ln, names |-> names]

\* ImportFrom(module, names): module is <<>> for "from . import"
ImportFromNd(module, names, d, ln) ==
    [type |-> "ImportFrom", depth |-> d, lineno |-> ln, module |-> module, names |-> names]

\* Assign(targets, value): a target is [type, id]
AssignNd(targets, d, ln) ==
    [type |-> "Assign", depth |-> d, lineno |-> ln, targets |-> targets]

\* FunctionDef(name, args): args is the names of node.args.args
FunctionDefNd(name, args, d, ln) ==
    [type |-> "FunctionDef", depth |-> d, lineno |-> ln, name |-> name, args |-> args]

\* ClassDef(name)
ClassDefNd(name, d, ln) == [type |-> "ClassDef", depth |-> d, lineno |-> ln, name |-> name]

ArgNodes(arg, d, ln) == IF arg = "" THEN <<>> ELSE <<NameNd(arg, "Load", d, ln)>>

\* the nodes of an expression rooted at depth d, in document order
ExprNodes(e, d, ln) ==
    CASE e.ek = "const"    -> <<Nd("Constant", d, ln)>>
      [] e.ek = "name"     -> <<NameNd(e.id, "Load", d, ln)>>
      [] e.ek = "attr"     -> <<AttributeNd(e.id, d, ln), NameNd(e.id, "Load", d + 1, ln)>>
      [] e.ek = "call"     -> <<CallNd(e.id, d, ln), NameNd(e.id, "Load", d + 1, ln)>>
                              \o ArgNodes(e.arg, d + 1, ln)
      [] e.ek = "attrcall" -> <<CallNd("", d, ln), AttributeNd(e.id, d + 1, ln),
                                NameNd(e.id, "Load", d + 2, ln)>>
                              \o ArgNodes(e.arg, d + 1, ln)
      [] e.ek = "cmp"      -> <<Nd("Compare", d, ln), NameNd(e.id, "Load", d + 1, ln),
                                Nd("Constant", d + 1, ln)>>
      [] e.ek = "lambda"   -> <<Nd("Lambda", d, ln), Nd("arguments", d + 1, 0),
                                Nd("Constant", d + 1, ln)>>

\* the nodes of the statement st of line ln, rooted at depth d
StmtNodes(st, d, ln) ==
    CASE st.kind = "import" ->
            <<ImportNd(<<Alias(st.mod, st.asname)>>, d, ln), Nd("alias", d + 1, ln)>>
      [] st.kind = "from" ->
            <<ImportFromNd(st.mod, <<Alias(<<st.id>>, st.asname)>>, d, ln),
              Nd("alias", d + 1, ln)>>
      [] st.kind = "assign" ->
            <<AssignNd(<<[type |-> "Name", id |-> st.id]>>, d, ln),
              NameNd(st.id, "Store", d + 1, ln)>>
            \o ExprNodes(st.e, d + 1, ln)
      [] st.kind = "setattr" ->
            <<AssignNd(<<[type |-> "Attribute", id |-> ""]>>, d, ln),
              AttributeNd(st.id, d + 1, ln), NameNd(st.id, "Load", d + 2, ln)>>
            \o ExprNodes(st.e, d + 1, ln)
      [] st.kind = "def" ->
            <<FunctionDefNd(st.id, st.args, d, ln), Nd("arguments", d + 1, 0)>>
            \o [k \in 1..Len(st.args) |-> Nd("arg", d + 2, ln)]
      [] st.kind = "class"  -> <<ClassDefNd(st.id, d, ln)>>
      [] st.kind = "if"     -> <<Nd("If", d, ln)>> \o ExprNodes(st.e, d + 1, ln)
      [] st.kind = "while"  -> <<Nd("While", d, ln)>> \o ExprNodes(st.e, d + 1, ln)
      [] st.kind = "for"    -> <<Nd("For", d, ln), NameNd(st.id, "Store", d + 1, ln)>>
                               \o ExprNodes(st.e, d + 1, ln)
      [] st.kind = "try"    -> <<Nd("Try", d, ln)>>
      [] st.kind = "except" -> <<Nd("ExceptHandler", d, ln)>>
      [] st.kind = "return" -> <<Nd("Return", d, ln)>> \o ExprNodes(st.e, d + 1, ln)
      [] st.kind = "expr"   -> <<Nd("Expr", d, ln)>> \o ExprNodes(st.e, d + 1, ln)
      [] st.kind = "pass"   -> <<Nd("Pass", d, ln)>>
      [] OTHER              -> <<>>

\* a tree, as against a source text: what PyAST_Check tells apart
IsTree(x) == x # <<>> /\ "type" \in DOMAIN x[1]

\* node.lineno exists: the parser gives every statement and expression its
\* line; a node made by calling its class, as ast.Import(names=[...]), has
\* no lineno attribute until ast.fix_missing_locations is run on it
HasLineno(node) == node.lineno # 0

\* the tree of the same shape made by calling the node classes
Unlocated(tree) == [n \in 1..Len(tree) |-> [tree[n] EXCEPT !.lineno = 0]]

(***************************************************************************)
(* ast.parse                                                               *)
(***************************************************************************)
\* an exception: its class, SyntaxError.lineno and .msg (str(e) otherwise)
Exc(cls, lineno, msg) == [cls |-> cls, lineno |-> lineno, msg |-> msg]

SyntaxErr(lineno, msg) == Exc("SyntaxError", lineno, msg)
SyntaxErrAt(ln, msg) == SyntaxErr(Some(ln), msg)

\* how the interpreter rejects a null byte: ValueError up to Python 3.11,
\* SyntaxError (without a line number) from Python 3.12
Runtimes == {"ValueError", "SyntaxError"}

\* the indentation discipline of the grammar.  blocks is the stack of open
\* blocks, innermost last: ind is the indentation of the block's statements,
\* sd their depth in the tree, last the compound statement that an "else" or
\* "except" at that indentation would continue ("" when there is none).
\* pend, when not None, is the header just read, whose body must come next:
\* the depth of that body, the header's kind and its line.
ParseInit == [exc |-> None, nodes |-> <<Nd("Module", 0, 0)>>,
              blocks |-> <<[ind |-> 0, sd |-> 1, last |-> ""]>>, pend |-> None]

Pending(sd, kind, ln) == <<[sd |-> sd, kind |-> kind, ln |-> ln]>>

HeaderText(kind) ==
    CASE kind = "def"   -> "function definition"
      [] kind = "class" -> "class definition"
      [] OTHER          -> "'" \o kind \o "' statement"

ExpectedBlock(pend) ==
    "expected an indented block after " \o HeaderText(pend[1].kind)
        \o " on line " \o ToString(pend[1].ln)

ExpectedExcept == "expected 'except' or 'finally' block"

\* the index in the stack of the block with indentation k, 0 when none
BlockAt(blocks, k) ==
    IF \E j \in 1..Len(blocks) : blocks[j].ind = k
    THEN CHOOSE j \in 1..Len(blocks) : blocks[j].ind = k
    ELSE 0

DanglingTry(blocks, from) == \E j \in from..Len(blocks) : blocks[j].last = "try"

ParseLine(acc, ln, line) ==
    LET k  == line.ind
        st == line.st
        top == acc.blocks[Len(acc.blocks)]
        opened == IF acc.pend # None
                  THEN Append(acc.blocks, [ind |-> k, sd |-> acc.pend[1].sd, last |-> ""])
                  ELSE acc.blocks
        j  == BlockAt(opened, k)
        B  == opened[j]
        fail(msg) == [acc EXCEPT !.exc = <<SyntaxErrAt(ln, msg)>>]
        step(nodes, last, pend) ==
            [exc |-> None, nodes |-> acc.nodes \o nodes,
             blocks |-> [SubSeq(opened, 1, j) EXCEPT ![j].last = last],
             pend |-> pend]
    IN  IF acc.exc # None \/ st.kind = "blank" THEN acc
        ELSE IF acc.pend # None /\ k <= top.ind THEN fail(ExpectedBlock(acc.pend))
        ELSE IF acc.pend = None /\ k > top.ind THEN fail("unexpected indent")
        ELSE IF j = 0
             THEN fail("unindent does not match any outer indentation level")
        ELSE IF DanglingTry(opened, j + 1) THEN fail(ExpectedExcept)
        ELSE IF B.last = "try" /\ st.kind # "except" THEN fail(ExpectedExcept)
        ELSE IF st.kind \in {"bad", "nul"} THEN fail("invalid syntax")
        ELSE IF st.kind = "else"
             THEN IF B.last \in {"if", "while", "for", "except"}
                  THEN step(<<>>, "", Pending(B.sd + 1, "else", ln))
                  ELSE fail("invalid syntax")
        ELSE IF st.kind = "except"
             THEN IF B.last \in {"try", "except"}
                  THEN step(StmtNodes(st, B.sd + 1, ln), "except",
                            Pending(B.sd + 2, "except", ln))
                  ELSE fail("invalid syntax")
        ELSE IF st.kind \in Headers
             THEN step(StmtNodes(st, B.sd, ln),
                       IF st.kind \in {"if", "while", "for", "try"} THEN st.kind ELSE "",
                       Pending(B.sd + 1, st.kind, ln))
        ELSE step(StmtNodes(st, B.sd, ln), "", None)

RECURSIVE ParseLines(_, _, _)
ParseLines(src, ln, acc) ==
    IF ln > Len(src) THEN acc
    ELSE ParseLines(src, ln + 1, ParseLine(acc, ln, src[ln]))

HasNul(src) == \E i \in 1..Len(src) : src[i].st.kind = "nul"

\* ast.parse(code): [exc |-> None, tree |-> nodes] or [exc |-> <<e>>, tree |-> None].
\* compile(source, ..., PyCF_ONLY_AST) hands back a source that is already a
\* tree as it is, unchecked.
ast_parse(src, rt) ==
    LET acc == ParseLines(src, 1, ParseInit)
        raise(e) == [exc |-> <<e>>, tree |-> None]
    IN  IF IsTree(src) THEN [exc |-> None, tree |-> src]
        ELSE IF HasNul(src)
        THEN raise(IF rt = "ValueError"
                   THEN Exc("ValueError", None, "source code string cannot contain null bytes")
                   ELSE SyntaxErr(None, "source code string cannot contain null bytes"))
        ELSE IF acc.exc # None THEN raise(acc.exc[1])
        ELSE IF acc.pend # None
             THEN raise(SyntaxErrAt(Len(src), ExpectedBlock(acc.pend)))
        ELSE IF DanglingTry(acc.blocks, 1)
             THEN raise(SyntaxErrAt(Len(src), ExpectedExcept))
        ELSE [exc |-> None, tree |-> acc.nodes]

\* ast.walk(tree): breadth-first; nodes of one depth keep their document order
RECURSIVE WalkFrom(_, _)
WalkFrom(tree, d) ==
    LET level == SelectSeq(tree, LAMBDA n : n.depth = d)
    IN  IF level = <<>> THEN <<>> ELSE level \o WalkFrom(tree, d + 1)

ast_walk(tree) == WalkFrom(tree, 0)


(***************************************************************************)
(* Python dict and str helpers                                             *)
(***************************************************************************)
\* reading node.lineno where the node has none
AttributeErr(type) ==
    Exc("AttributeError", None, "'" \o type \o "' object has no attribute 'lineno'")

\* d.setdefault(key, val) for d[key] = val: the first value of a key stays
DictSet_KeepFirst(d, key, val) ==
    IF \E i \in 1..Len(d) : d[i].key = key
    THEN d
    ELSE Append(d, [key |-> key, val |-> val])

\* a dict keeps its keys in insertion order: d[key] = val replaces the value
\* of a key already present where it stands, and appends a new key
DictSet(d, key, val) ==
    IF \E i \in 1..Len(d) : d[i].key = key
    THEN [i \in 1..Len(d) |-> IF d[i].key = key THEN [key |-> key, val |-> val] ELSE d[i]]
    ELSE Append(d, [key |-> key, val |-> val])

\* the identifiers of the modelled sources that begin with "_"
UnderscoreNames == {"_x", "_p"}

\* the test "if not var_name.startswith('_')" left out
startswith_underscore_Never(name) == FALSE

\* name.startswith('_')
startswith_underscore(name) == name \in UnderscoreNames

(***************************************************************************)
(* CodeParser._extract_metadata                                            *)
(***************************************************************************)
RECURSIVE MetaImports(_, _, _)
MetaImports(node, k, imports) ==
    IF k > Len(node.names) THEN imports
    ELSE LET alias == node.names[k]
             entry == IF node.type = "Import"
                      THEN [name |-> alias.name, asname |-> alias.asname,
                            line |-> node.lineno, from |-> None]
                      ELSE [name |-> IF node.module # <<>> THEN node.module \o alias.name
                                     ELSE alias.name,
                            asname |-> alias.asname, line |-> node.lineno,
                            from |-> <<node.module>>]
         IN  MetaImports(node, k + 1, Append(imports, entry))

RECURSIVE MetaVariables(_, _, _)
MetaVariables(node, k, variables) ==
    IF k > Len(node.targets) THEN variables
    ELSE MetaVariables(node, k + 1,
             IF node.targets[k].type = "Name"
             THEN Append(variables, [name |-> node.targets[k].id, line |-> node.lineno])
             ELSE variables)

MetaStep(metadata, node) ==
    CASE node.type = "FunctionDef" ->
            [metadata EXCEPT !.functions =
                Append(@, [name |-> node.name, line |-> node.lineno, args |-> node.args])]
      [] node.type = "ClassDef" ->
            [metadata EXCEPT !.classes = Append(@, [name |-> node.name, line |-> node.lineno])]
      [] node.type \in {"Import", "ImportFrom"} ->
            [metadata EXCEPT !.imports = MetaImports(node, 1, @)]
      [] node.type = "Assign" ->
            [metadata EXCEPT !.variables = MetaVariables(node, 1, @)]
      [] OTHER -> metadata

RECURSIVE MetaWalk(_, _, _)
MetaWalk(nodes, i, metadata) ==
    IF i > Len(nodes) THEN metadata
    ELSE MetaWalk(nodes, i + 1, MetaStep(metadata, nodes[i]))

\* the nodes whose lineno the loop of _extract_metadata reads
MetaReadsLineno(node) ==
    \/ node.type \in {"FunctionDef", "ClassDef"}
    \/ node.type \in {"Import", "ImportFrom"} /\ node.names # <<>>
    \/ node.type = "Assign"
       /\ \E k \in 1..Len(node.targets) : node.targets[k].type = "Name"

_extract_metadata(tree) ==
    MetaWalk(ast_walk(tree), 1,
             [functions |-> <<>>, classes |-> <<>>, imports |-> <<>>,
              variables |-> <<>>, total_lines |-> 0])

(***************************************************************************)
(* ErrorDetector._find_unused_variables                                    *)
(***************************************************************************)
\* the first pass recording zero-based lines ("node.lineno - 1")
RECURSIVE AssignTargets_ZeroBased(_, _, _)
AssignTargets_ZeroBased(node, k, assigned_vars) ==
    IF k > Len(node.targets) THEN assigned_vars
    ELSE LET target == node.targets[k]
         IN  AssignTargets_ZeroBased(node, k + 1,
                 IF target.type = "Name" /\ ~startswith_underscore(target.id)
                 THEN DictSet(assigned_vars, target.id, node.lineno - 1)
                 ELSE assigned_vars)

RECURSIVE AssignTargets(_, _, _)
AssignTargets(node, k, assigned_vars) ==
    IF k > Len(node.targets) THEN assigned_vars
    ELSE LET target == node.targets[k]
         IN  AssignTargets(node, k + 1,
                 IF target.type = "Name" /\ ~startswith_underscore(target.id)
                 THEN DictSet(assigned_vars, target.id, node.lineno)
                 ELSE assigned_vars)

RECURSIVE FunctionArgs(_, _, _)
FunctionArgs(node, k, assigned_vars) ==
    IF k > Len(node.args) THEN assigned_vars
    ELSE FunctionArgs(node, k + 1,
             IF ~startswith_underscore(node.args[k])
             THEN DictSet(assigned_vars, node.args[k], node.lineno)
             ELSE assigned_vars)

\* first pass, one node
AssignedStep(assigned_vars, node) ==
    CASE node.type = "Assign"      -> AssignTargets(node, 1, assigned_vars)
      [] node.type = "FunctionDef" -> FunctionArgs(node, 1, assigned_vars)
      [] OTHER                     -> assigned_vars

RECURSIVE AssignedWalk(_, _, _)
AssignedWalk(nodes, i, assigned_vars) ==
    IF i > Len(nodes) THEN assigned_vars
    ELSE AssignedWalk(nodes, i + 1, AssignedStep(assigned_vars, nodes[i]))

\* the second pass without its first branch: only callees count as used
UsedVarsOf_CallsOnly(node) ==
    CASE node.type = "Call" /\ node.func # ""    -> {node.func}
      [] OTHER                                   -> {}

\* second pass: the names a node adds to used_vars
UsedVarsOf(node) ==
    CASE node.type = "Name" /\ node.ctx = "Load" -> {node.id}
      [] node.type = "Call" /\ node.func # ""    -> {node.func}
      [] OTHER                                   -> {}

used_vars_of(tree) == UNION {UsedVarsOf(tree[i]) : i \in 1..Len(tree)}

RECURSIVE UnusedVarList(_, _, _)
UnusedVarList(assigned_vars, used_vars, i) ==
    IF i > Len(assigned_vars) THEN <<>>
    ELSE (IF assigned_vars[i].key \notin used_vars
          THEN <<[name |-> assigned_vars[i].key, line |-> assigned_vars[i].val,
                  type |-> "unused_variable"]>>
          ELSE <<>>)
         \o UnusedVarList(assigned_vars, used_vars, i + 1)

\* the nodes whose lineno the first pass reads
VarsReadLineno(node) ==
    \/ node.type = "Assign"
       /\ \E k \in 1..Len(node.targets) :
             node.targets[k].type = "Name" /\ ~startswith_underscore(node.targets[k].id)
    \/ node.type = "FunctionDef"
       /\ \E k \in 1..Len(node.args) : ~startswith_underscore(node.args[k])

assigned_vars_of(tree) == AssignedWalk(ast_walk(tree), 1, <<>>)

_find_unused_variables(tree) ==
    UnusedVarList(assigned_vars_of(tree), used_vars_of(tree), 1)

(***************************************************************************)
(* ErrorDetector._find_unused_imports                                      *)
(***************************************************************************)
\* the import pass storing the bound name as 'full_name'
RECURSIVE ImportAliases_BoundName(_, _, _)
ImportAliases_BoundName(node, k, imported_names) ==
    IF k > Len(node.names) THEN imported_names
    ELSE LET alias == node.names[k]
             name == IF alias.asname # "" THEN <<alias.asname>> ELSE alias.name
         IN  ImportAliases_BoundName(node, k + 1,
                 IF node.type = "Import"
                 THEN DictSet(imported_names, Head(name),
                              [full_name |-> <<Head(name)>>, line |-> node.lineno])
                 ELSE IF alias.name = <<"*">> THEN imported_names
                 ELSE DictSet(imported_names, name[1],
                              [full_name |-> <<name[1]>>, line |-> node.lineno]))

RECURSIVE ImportAliases(_, _, _)
ImportAliases(node, k, imported_names) ==
    IF k > Len(node.names) THEN imported_names
    ELSE LET alias == node.names[k]
             \* alias.asname if alias.asname else alias.name
             name == IF alias.asname # "" THEN <<alias.asname>> ELSE alias.name
         IN  ImportAliases(node, k + 1,
                 IF node.type = "Import"
                 THEN \* base_name = name.split('.')[0]
                      DictSet(imported_names, Head(name),
                              [full_name |-> alias.name, line |-> node.lineno])
                 ELSE IF alias.name = <<"*">> THEN imported_names
                 ELSE DictSet(imported_names, name[1],
                              [full_name |-> IF node.module # <<>>
                                             THEN node.module \o alias.name
                                             ELSE alias.name,
                               line |-> node.lineno]))

ImportedStep(imported_names, node) ==
    IF node.type \in {"Import", "ImportFrom"}
    THEN ImportAliases(node, 1, imported_names)
    ELSE imported_names

RECURSIVE ImportedWalk(_, _, _)
ImportedWalk(nodes, i, imported_names) ==
    IF i > Len(nodes) THEN imported_names
    ELSE ImportedWalk(nodes, i + 1, ImportedStep(imported_names, nodes[i]))

\* the nodes whose lineno the import pass reads
ImportsReadLineno(node) ==
    \/ node.type = "Import" /\ node.names # <<>>
    \/ node.type = "ImportFrom"
       /\ \E k \in 1..Len(node.names) : node.names[k].name # <<"*">>

imported_names_of(tree) == ImportedWalk(ast_walk(tree), 1, <<>>)

\* the nodes whose lineno the loop of the method named reader reads
ReadsLineno(reader, node) ==
    CASE reader = "_extract_metadata"      -> MetaReadsLineno(node)
      [] reader = "_find_unused_variables" -> VarsReadLineno(node)
      [] reader = "_find_unused_imports"   -> ImportsReadLineno(node)

\* the loop of reader over ast.walk(tree): whether it raises, and the
\* exception of the first node it reads the lineno of that has none
WalkRaises(tree, reader) ==
    \E i \in 1..Len(tree) : ReadsLineno(reader, tree[i]) /\ ~HasLineno(tree[i])

WalkRaised(tree, reader) ==
    LET nodes == ast_walk(tree)
        fails(i) == ReadsLineno(reader, nodes[i]) /\ ~HasLineno(nodes[i])
        first == CHOOSE i \in 1..Len(nodes) :
                    fails(i) /\ \A j \in 1..(i - 1) : ~fails(j)
    IN  AttributeErr(nodes[first].type)

\* the usage pass testing the context for Store where every Name counts
UsedNamesOf_StoreOnly(node) ==
    CASE node.type = "Name" /\ node.ctx = "Store"    -> {node.id}
      [] OTHER                                       -> {}

\* the names a node adds to used_names
UsedNamesOf(node) ==
    CASE node.type = "Name"                            -> {node.id}
      [] node.type = "Attribute" /\ node.value # ""    -> {node.value}
      [] OTHER                                         -> {}

used_names_of(tree) == UNION {UsedNamesOf(tree[i]) : i \in 1..Len(tree)}

\* "if name in used_names" for "if name not in used_names"
RECURSIVE UnusedImportList_Inverted(_, _, _)
UnusedImportList_Inverted(imported_names, used_names, i) ==
    IF i > Len(imported_names) THEN <<>>
    ELSE (IF imported_names[i].key \in used_names
          THEN <<[name |-> imported_names[i].val.full_name,
                  line |-> imported_names[i].val.line,
                  type |-> "unused_import"]>>
          ELSE <<>>)
         \o UnusedImportList_Inverted(imported_names, used_names, i + 1)

RECURSIVE UnusedImportList(_, _, _)
UnusedImportList(imported_names, used_names, i) ==
    IF i > Len(imported_names) THEN <<>>
    ELSE (IF imported_names[i].key \notin used_names
          THEN <<[name |-> imported_names[i].val.full_name,
                  line |-> imported_names[i].val.line,
                  type |-> "unused_import"]>>
          ELSE <<>>)
         \o UnusedImportList(imported_names, used_names, i + 1)

_find_unused_imports(tree) ==
    UnusedImportList(imported_names_of(tree), used_names_of(tree), 1)

(***************************************************************************)
(* Complexity estimators                                                   *)
(***************************************************************************)
\* a function definition weighed 1
ScoreStep_FunctionOne(score, node) ==
    CASE node.type \in {"If", "While", "For"}    -> score + 1
      [] node.type = "FunctionDef"               -> score + 1
      [] node.type = "ClassDef"                  -> score + 3
      [] node.type \in {"Try", "ExceptHandler"}  -> score + 1
      [] OTHER                                   -> score

\* "score = 1" for "score += 1" in the branch of the control structures
ScoreStep_Reset(score, node) ==
    CASE node.type \in {"If", "While", "For"}    -> 1
      [] node.type = "FunctionDef"               -> score + 2
      [] node.type = "ClassDef"                  -> score + 3
      [] node.type \in {"Try", "ExceptHandler"}  -> score + 1
      [] OTHER                                   -> score

\* CodeParser.get_complexity_score, one node of the walk
ScoreStep(score, node) ==
    CASE node.type \in {"If", "While", "For"}    -> score + 1
      [] node.type = "FunctionDef"               -> score + 2
      [] node.type = "ClassDef"                  -> score + 3
      [] node.type \in {"Try", "ExceptHandler"}  -> score + 1
      [] OTHER                                   -> score

\* AISuggestor._estimate_complexity, one node of the walk
ComplexityStep(complexity, node) ==
    CASE node.type \in {"If", "For", "While"}    -> complexity + 1
      [] node.type = "FunctionDef"               -> complexity + 2
      [] node.type = "ClassDef"                  -> complexity + 3
      [] node.type \in {"Try", "ExceptHandler"}  -> complexity + 1
      [] node.type = "Lambda"                    -> complexity + 1
      [] OTHER                                   -> complexity

RECURSIVE ScoreWalk(_, _, _)
ScoreWalk(nodes, i, score) ==
    IF i > Len(nodes) THEN score
    ELSE ScoreWalk(nodes, i + 1, ScoreStep(score, nodes[i]))

RECURSIVE ComplexityWalk(_, _, _)
ComplexityWalk(nodes, i, complexity) ==
    IF i > Len(nodes) THEN complexity
    ELSE ComplexityWalk(nodes, i + 1, ComplexityStep(complexity, nodes[i]))

\* get_complexity_score with "return -1" in its handler
get_complexity_score_Sentinel(src) ==
    LET p == ast_parse(src, "SyntaxError")
    IN  IF p.exc # None THEN -1 ELSE ScoreWalk(ast_walk(p.tree), 1, 0)

\* the bare "except:" catches whatever ast.parse raises
get_complexity_score(src) ==
    LET p == ast_parse(src, "SyntaxError")
    IN  IF p.exc # None THEN 0 ELSE ScoreWalk(ast_walk(p.tree), 1, 0)

_estimate_complexity(src) ==
    LET p == ast_parse(src, "SyntaxError")
    IN  IF p.exc # None THEN 0 ELSE ComplexityWalk(ast_walk(p.tree), 1, 0)


(***************************************************************************)
(* CodeParser.parse_code                                                   *)
(***************************************************************************)
\* the value of result['error'] for a caught exception
ErrorText(e) ==
    IF e.cls = "SyntaxError"
    THEN "Syntax Error at line " \o Str(e.lineno) \o ": " \o e.msg
    ELSE "Parsing Error: " \o e.msg

\* parse_code with "self.ast_tree = None" in its handlers
parse_code_ClearsTree(src, rt, old_tree) ==
    LET p == ast_parse(src, rt)
    IN  IF p.exc = None /\ WalkRaises(p.tree, "_extract_metadata")
        THEN [raised |-> FALSE,
              value |-> [success |-> TRUE, ast |-> p.tree,
                         error |-> Some(ErrorText(WalkRaised(p.tree, "_extract_metadata"))),
                         metadata |-> EmptyDict],
              ast_tree |-> None]
        ELSE IF p.exc = None
        THEN [raised |-> FALSE,
              value |-> [success |-> TRUE, ast |-> p.tree, error |-> None,
                         metadata |-> _extract_metadata(p.tree)],
              ast_tree |-> p.tree]
        ELSE [raised |-> FALSE,
              value |-> [success |-> FALSE, ast |-> None,
                         error |-> Some(ErrorText(p.exc[1])), metadata |-> EmptyDict],
              ast_tree |-> None]

\* parse_code with result['success'] = True set before ast.parse is called
parse_code_SuccessFirst(src, rt, old_tree) ==
    LET p == ast_parse(src, rt)
    IN  IF p.exc = None
        THEN [raised |-> FALSE,
              value |-> [success |-> TRUE, ast |-> p.tree, error |-> None,
                         metadata |-> _extract_metadata(p.tree)],
              ast_tree |-> p.tree]
        ELSE [raised |-> FALSE,
              value |-> [success |-> TRUE, ast |-> None,
                         error |-> Some(ErrorText(p.exc[1])), metadata |-> EmptyDict],
              ast_tree |-> old_tree]

\* the call parser.parse_code(src): whether an exception leaves the call,
\* the returned dict, and the value of self.ast_tree after the call (the
\* field is assigned only when ast.parse returns).  An exception of
\* _extract_metadata is caught by "except Exception" after success and ast
\* have been set.
parse_code(src, rt, old_tree) ==
    LET p == ast_parse(src, rt)
    IN  IF p.exc = None /\ WalkRaises(p.tree, "_extract_metadata")
        THEN [raised |-> FALSE,
              value |-> [success |-> TRUE, ast |-> p.tree,
                         error |-> Some(ErrorText(WalkRaised(p.tree, "_extract_metadata"))),
                         metadata |-> EmptyDict],
              ast_tree |-> p.tree]
        ELSE IF p.exc = None
        THEN [raised |-> FALSE,
              value |-> [success |-> TRUE, ast |-> p.tree, error |-> None,
                         metadata |-> _extract_metadata(p.tree)],
              ast_tree |-> p.tree]
        ELSE [raised |-> FALSE,
              value |-> [success |-> FALSE, ast |-> None,
                         error |-> Some(ErrorText(p.exc[1])), metadata |-> EmptyDict],
              ast_tree |-> old_tree]

(***************************************************************************)
(* CodeParser.get_function_info                                            *)
(***************************************************************************)
\* the places in the walk of the function definitions named function_name
MatchingDefs(nodes, function_name) ==
    {n \in 1..Len(nodes) :
        nodes[n].type = "FunctionDef" /\ nodes[n].name = function_name}

\* the call parser.get_function_info(function_name) on a parser that holds
\* tree: whether an exception leaves the call and the returned value.  None
\* is the only false value self.ast_tree takes; the modelled sources have no
\* decorator and no docstring.
get_function_info(tree, function_name) ==
    IF tree = None THEN [raised |-> FALSE, value |-> None]
    ELSE LET nodes == ast_walk(tree)
             M == MatchingDefs(nodes, function_name)
             node == nodes[CHOOSE n \in M : \A m \in M : n <= m]
         IN  IF M = {} THEN [raised |-> FALSE, value |-> None]
             ELSE IF ~HasLineno(node) THEN [raised |-> TRUE, value |-> None]
             ELSE [raised |-> FALSE,
                   value |-> [name |-> node.name, line |-> node.lineno,
                              args |-> node.args, decorators |-> <<>>,
                              docstring |-> None]]

(***************************************************************************)
(* ErrorDetector.detect_errors                                             *)
(***************************************************************************)
NoFindings == [unused_vars |-> <<>>, unused_imports |-> <<>>]

\* the findings appended to the stored list ("+=" for "=")
StoreFindings_Extend(old, new) == old \o new

\* self.unused_vars = ..., self.unused_imports = ...: the fields are rebound
StoreFindings(old, new) == new

\* detect_errors returning the stored fields, not fresh empty lists, when
\* the source does not parse
detect_errors_Stale(src, tree, old_vars, old_imports) ==
    LET p == IF tree = None THEN ast_parse(src, "SyntaxError")
             ELSE [exc |-> None, tree |-> tree]
    IN  IF p.exc # None
        THEN [raised |-> FALSE,
              value |-> [unused_vars |-> old_vars, unused_imports |-> old_imports],
              unused_vars |-> old_vars, unused_imports |-> old_imports,
              ran |-> <<>>]
        ELSE LET uv == StoreFindings(old_vars, _find_unused_variables(p.tree))
                 ui == StoreFindings(old_imports, _find_unused_imports(p.tree))
             IN  [raised |-> FALSE,
                  value |-> [unused_vars |-> uv, unused_imports |-> ui],
                  unused_vars |-> uv, unused_imports |-> ui,
                  ran |-> <<"_find_unused_variables", "_find_unused_imports">>]

\* the call detector.detect_errors(src, tree) (tree is None when not passed)
\* on a detector whose fields hold old_vars and old_imports: whether an
\* exception leaves the call, the returned dict (None when the call raised),
\* the fields after the call, and the collections that ran.  The two
\* collections are called outside the try statement.
detect_errors(src, tree, old_vars, old_imports) ==
    LET p == IF tree = None THEN ast_parse(src, "SyntaxError")
             ELSE [exc |-> None, tree |-> tree]
    IN  IF p.exc # None
        THEN [raised |-> FALSE, value |-> NoFindings,
              unused_vars |-> old_vars, unused_imports |-> old_imports,
              ran |-> <<>>]
        ELSE IF WalkRaises(p.tree, "_find_unused_variables")
        THEN [raised |-> TRUE, value |-> None,
              unused_vars |-> old_vars, unused_imports |-> old_imports,
              ran |-> <<"_find_unused_variables">>]
        ELSE IF WalkRaises(p.tree, "_find_unused_imports")
        THEN [raised |-> TRUE, value |-> None,
              unused_vars |-> StoreFindings(old_vars, _find_unused_variables(p.tree)),
              unused_imports |-> old_imports,
              ran |-> <<"_find_unused_variables", "_find_unused_imports">>]
        ELSE LET uv == StoreFindings(old_vars, _find_unused_variables(p.tree))
                 ui == StoreFindings(old_imports, _find_unused_imports(p.tree))
             IN  [raised |-> FALSE,
                  value |-> [unused_vars |-> uv, unused_imports |-> ui],
                  unused_vars |-> uv, unused_imports |-> ui,
                  ran |-> <<"_find_unused_variables", "_find_unused_imports">>]

(***************************************************************************)
(* ErrorDetector.get_error_summary                                         *)
(***************************************************************************)
\* the summary of the detector whose fields hold vars_ and imports
get_error_summary(vars_, imports) ==
    LET total_errors == Len(vars_) + Len(imports)
    IN  IF total_errors = 0 THEN "No issues detected! Code looks clean."
        ELSE "Found " \o ToString(total_errors) \o " issue(s):\n"
             \o "- " \o ToString(Len(imports)) \o " unused import(s)\n"
             \o "- " \o ToString(Len(vars_)) \o " unused variable(s)\n"

(***************************************************************************)
(* The inputs                                                              *)
(***************************************************************************)
\* the lines that the generated sources are made of
LinePool ==
    { L(0, Import(<<"os">>, "")),            \* import os
      L(0, Import(<<"os", "path">>, "p")),   \* import os.path as p
      L(0, Assign("x", Const)),              \* x = 10
      L(1, Assign("x", Const)),              \*     x = 10
      L(0, Assign("_x", Const)),             \* _x = 10
      L(0, Assign("x", Attr("os"))),         \* x = os.path
      L(0, Assign("f", Lam)),                \* f = lambda: 0
      L(0, ExprS(Meth("p", "x"))),           \* p.join(x)
      L(0, Def("f", <<"n">>)),               \* def f(n):
      L(1, IfS(Cmp("n"))),                   \*     if n > 0:
      L(1, ReturnS(Rd("n"))),                \*     return n
      L(2, ReturnS(Const)),                  \*         return 5
      L(0, ImportFrom(<<"os">>, "path", "")),\* from os import path
      L(0, Blank),                           \* (an empty line)
      L(0, Bad) }                            \* x = = 10

\* "import os\n\ndef example():\n    x = 10\n    return 5\n"
Scenario1 ==
    << L(0, Import(<<"os">>, "")), L(0, Blank), L(0, Def("example", <<>>)),
       L(1, Assign("x", Const)), L(1, ReturnS(Const)) >>

\* "def f(n):\n    if n > 0:\n        return 1\n    else:\n        return -1\n"
Scenario2 ==
    << L(0, Def("f", <<"n">>)), L(1, IfS(Cmp("n"))), L(2, ReturnS(Const)),
       L(1, ElseS), L(2, ReturnS(Const)) >>

\* every construct the estimators weigh:
\* "class C:\n    def f(n):\n        for x in n:\n            pass\n
\*  while x:\n    try:\n        f = lambda: 0\n    except:\n        pass\n"
AllConstructs ==
    << L(0, Class("C")), L(1, Def("f", <<"n">>)), L(2, ForS("x", Rd("n"))), L(3, PassS),
       L(0, WhileS(Rd("x"))), L(1, TryS), L(2, Assign("f", Lam)), L(1, ExceptS),
       L(2, PassS) >>

\* "from os import path\nfrom os import *\nfrom . import x as _p\nx.attr = f(x)\n"
FromImports ==
    << L(0, ImportFrom(<<"os">>, "path", "")), L(0, ImportFrom(<<"os">>, "*", "")),
       L(0, ImportFrom(<<>>, "x", "_p")), L(0, SetAttr("x", Call1("f", "x"))) >>

\* "x = 10\n\0\n"
NulByte == << L(0, Assign("x", Const)), L(0, Nul) >>

\* "import os\nos = 10\n"
ShadowedImport == << L(0, Import(<<"os">>, "")), L(0, Assign("os", Const)) >>

\* "def f(x):\n    x = 10\nx = 10\n"
Rebinding ==
    << L(0, Def("f", <<"x">>)), L(1, Assign("x", Const)), L(0, Assign("x", Const)) >>

\* "x = 10\ndef f(x):\n    pass\n"
ParamRebinding == << L(0, Assign("x", Const)), L(0, Def("f", <<"x">>)), L(1, PassS) >>

Scenarios ==
    {Scenario1, Scenario2, AllConstructs, FromImports, NulByte, ShadowedImport,
     Rebinding, ParamRebinding}

\* no syntax error before the last line: the parser reads no further than
\* the first error, so a source with an earlier error adds no case
ErrorOnlyAtEnd(src) ==
    \/ Len(src) = 0
    \/ LET prefix == SubSeq(src, 1, Len(src) - 1)
       IN  ~HasNul(prefix) /\ ParseLines(prefix, 1, ParseInit).exc = None

Sources ==
    {src \in UNION {[1..k -> LinePool] : k \in 0..MaxLines} : ErrorOnlyAtEnd(src)}
    \cup Scenarios


(***************************************************************************)
(* The state machine: one CodeParser, one ErrorDetector and one            *)
(* AISuggestor, as app.py creates them, called on the current input        *)
(***************************************************************************)
\* the record of a call: the operation, its arguments, whether it raised,
\* what it returned and which collections of the detector ran
Called(op, src, tree, raised, value, ran) ==
    [op |-> op, src |-> src, tree |-> tree, raised |-> raised, value |-> value,
     ran |-> ran]

Init ==
    /\ code \in Sources
    /\ ast_tree = None
    /\ unused_vars = <<>>
    /\ unused_imports = <<>>
    /\ ret = Called("init", <<>>, None, FALSE, None, <<>>)
    /\ edits = 0

\* the trees that a caller makes by hand rather than by parsing: the trees
\* of the scenarios, built by calling the node classes
HandBuilt(src) ==
    LET p == ast_parse(src, "SyntaxError")
    IN  IF src \in Scenarios /\ p.exc = None /\ Unlocated(p.tree) # p.tree
        THEN {Unlocated(p.tree)}
        ELSE {}

\* parser.parse_code(code), code being the input or a tree made of it
ParseCode ==
    \E rt \in Runtimes : \E arg \in {code} \cup HandBuilt(code) :
        \E r \in {parse_code(arg, rt, ast_tree)} :
            /\ ast_tree' = r.ast_tree
            /\ ret' = Called("parse_code", arg, None, r.raised, r.value, <<>>)
            /\ UNCHANGED <<code, unused_vars, unused_imports, edits>>

\* detector.detect_errors(code) and detector.detect_errors(code, tree) with
\* the tree the parser holds
DetectErrors ==
    \E tree \in {None, ast_tree} :
        \E d \in {detect_errors(code, tree, unused_vars, unused_imports)} :
            /\ unused_vars' = d.unused_vars
            /\ unused_imports' = d.unused_imports
            /\ ret' = Called("detect_errors", code, tree, d.raised, d.value, d.ran)
            /\ UNCHANGED <<code, ast_tree, edits>>

\* parser.get_complexity_score(code)
GetComplexityScore ==
    /\ ret' = Called("get_complexity_score", code, None, FALSE,
                   get_complexity_score(code), <<>>)
    /\ UNCHANGED <<code, ast_tree, unused_vars, unused_imports, edits>>

\* suggestor._estimate_complexity(code)
EstimateComplexity ==
    /\ ret' = Called("_estimate_complexity", code, None, FALSE,
                   _estimate_complexity(code), <<>>)
    /\ UNCHANGED <<code, ast_tree, unused_vars, unused_imports, edits>>

\* the function names asked for: one that sources define, one that none does
FunctionNames == {"f", "g"}

\* parser.get_function_info(function_name)
GetFunctionInfo ==
    \E function_name \in FunctionNames :
        \E r \in {get_function_info(ast_tree, function_name)} :
            /\ ret' = Called("get_function_info", <<>>, None, r.raised, r.value, <<>>)
                        @@ [function_name |-> function_name]
            /\ UNCHANGED <<code, ast_tree, unused_vars, unused_imports, edits>>

\* detector.get_error_summary()
GetErrorSummary ==
    /\ ret' = Called("get_error_summary", <<>>, None, FALSE,
                   get_error_summary(unused_vars, unused_imports), <<>>)
    /\ UNCHANGED <<code, ast_tree, unused_vars, unused_imports, edits>>

\* the user deletes the last line of the input
EditCode ==
    /\ edits < MaxEdits
    /\ Len(code) > 0
    /\ code' = SubSeq(code, 1, Len(code) - 1)
    /\ edits' = edits + 1
    /\ ret' = Called("edit", code', None, FALSE, None, <<>>)
    /\ UNCHANGED <<ast_tree, unused_vars, unused_imports>>

Next ==
    \/ ParseCode
    \/ DetectErrors
    \/ GetComplexityScore
    \/ EstimateComplexity
    \/ GetErrorSummary
    \/ GetFunctionInfo
    \/ EditCode

Spec == Init /\ [][Next]_vars


(***************************************************************************)
(* Properties                                                              *)
(***************************************************************************)
\* the source is valid source text: ast.parse returns a tree
Valid(src) == ast_parse(src, "SyntaxError").exc = None

TreeOf(src) == ast_parse(src, "SyntaxError").tree

\* C1: parse_code on a source string that is not valid source text returns,
\* without raising, success = false, a non-empty error string, ast = None
\* and metadata = {}; and in every result for a source string success is
\* true exactly when error is None.
C1_ParseContract ==
    (ret.op = "parse_code" /\ ~IsTree(ret.src)) =>
        /\ ~ret.raised
        /\ ~Valid(ret.src) =>
              /\ ret.value.success = FALSE
              /\ ret.value.error # None
              /\ ret.value.error[1] # ""
              /\ ret.value.ast = None
              /\ ret.value.metadata = EmptyDict
        /\ (ret.value.success = TRUE) <=> (ret.value.error = None)

\* parse_code has returned for a source that does not parse
C1_Witness ==
    /\ ret.op = "parse_code"
    /\ ~Valid(ret.src)
    /\ ret.value.success = FALSE
    /\ ret.value.error # None

\* C2: detect_errors(code), called without a tree on a source that fails to
\* parse, returns exactly {unused_vars: [], unused_imports: []} without
\* raising and runs neither collection.
C2_DetectSkipsUnparsable ==
    (ret.op = "detect_errors" /\ ret.tree = None /\ ~Valid(ret.src)) =>
        /\ ~ret.raised
        /\ ret.value = NoFindings
        /\ ret.ran = <<>>

\* detect_errors has returned for a source that does not parse, on a
\* detector that holds findings of an earlier call
C2_Witness ==
    /\ ret.op = "detect_errors"
    /\ ret.tree = None
    /\ ~Valid(ret.src)
    /\ ret.value = NoFindings
    /\ unused_vars # <<>>


\* detect_errors has returned for a valid source, parsed by the call itself
\* or passed with its own tree
Detected ==
    /\ ret.op = "detect_errors"
    /\ ~ret.raised
    /\ Valid(ret.src)
    /\ ret.tree \in {None, TreeOf(ret.src)}

Range(seq) == {seq[i] : i \in 1..Len(seq)}

\* the identifiers that occur in a statement
Mentions(st) ==
    ({st.id, st.asname, st.e.id, st.e.arg} \cup Range(st.mod) \cup Range(st.args)) \ {""}

\* the names a statement reads (in a Load context)
Reads(st) ==
    ({st.e.id, st.e.arg} \cup (IF st.kind = "setattr" THEN {st.id} ELSE {})) \ {""}

\* the names a statement binds as variables: assignment target, parameters
Binds(st) ==
    CASE st.kind = "assign" -> {st.id}
      [] st.kind = "def"    -> Range(st.args)
      [] OTHER              -> {}

\* the names that occur as the base of an attribute access
AttrBases(src) ==
    {src[j].st.e.id : j \in {j \in 1..Len(src) : src[j].st.e.ek \in {"attr", "attrcall"}}}
    \cup {src[j].st.id : j \in {j \in 1..Len(src) : src[j].st.kind = "setattr"}}

ImportOs == Import(<<"os">>, "")

\* the lines of src that hold "import os" while os occurs nowhere else
LoneImportOs(src) ==
    {i \in 1..Len(src) :
        /\ src[i].st = ImportOs
        /\ \A j \in 1..Len(src) : j # i => "os" \notin Mentions(src[j].st)}

\* C3: when "import os" appears in a valid source and the name os is
\* referenced nowhere else in it, unused_imports has an entry with name os
\* and the line of that import statement.
C3_UnusedImportOs ==
    Detected =>
        \A i \in LoneImportOs(ret.src) :
            \E k \in 1..Len(ret.value.unused_imports) :
                /\ ret.value.unused_imports[k].name = <<"os">>
                /\ ret.value.unused_imports[k].line = i

\* detect_errors has reported a lone "import os" that is not on line 1
C3_Witness ==
    /\ Detected
    /\ \E i \in LoneImportOs(ret.src) : i > 1
    /\ ret.value.unused_imports # <<>>

\* the entries of a finding list for a name
EntriesFor(findings, name) == {k \in 1..Len(findings) : findings[k].name = name}

AssignX == Assign("x", Const)

\* the binding of name that ast.walk visits last: the deepest one and, among
\* the deepest, the last in the text
BindingNodes(tree, name) ==
    {n \in 1..Len(tree) :
        \/ tree[n].type = "Assign"
           /\ \E t \in 1..Len(tree[n].targets) :
                 tree[n].targets[t] = [type |-> "Name", id |-> name]
        \/ tree[n].type = "FunctionDef" /\ name \in Range(tree[n].args)}

LastBindingLine(tree, name) ==
    LET B == BindingNodes(tree, name)
        last == CHOOSE n \in B : \A m \in B :
                    \/ tree[m].depth < tree[n].depth
                    \/ tree[m].depth = tree[n].depth /\ tree[m].lineno <= tree[n].lineno
    IN  tree[last].lineno

\* C4 as stated: "x = 10" with no read of x after it in source order is
\* reported in unused_vars with the line of that assignment; "_x = 10" gives
\* no finding for _x.
C4_AsStated ==
    Detected =>
        /\ \A i \in 1..Len(ret.src) :
              (/\ ret.src[i].st = AssignX
               /\ \A j \in (i + 1)..Len(ret.src) : "x" \notin Reads(ret.src[j].st))
              => \E k \in EntriesFor(ret.value.unused_vars, "x") :
                     ret.value.unused_vars[k].line = i
        /\ (\E i \in 1..Len(ret.src) : ret.src[i].st = Assign("_x", Const))
              => /\ EntriesFor(ret.value.unused_vars, "_x") = {}
                 /\ EntriesFor(ret.value.unused_imports, <<"_x">>) = {}

\* C4 amended: when a valid source contains "x = 10" and x is read nowhere
\* in the source, before or after the assignment, unused_vars has exactly
\* one entry for x, and its line is the line of the binding of x that the
\* walk visits last (that assignment's line when nothing else binds x);
\* "_x = 10" gives no entry for _x in unused_vars.
C4_UnusedVarX ==
    Detected =>
        /\ \A i \in 1..Len(ret.src) :
              (/\ ret.src[i].st = AssignX
               /\ \A j \in 1..Len(ret.src) : "x" \notin Reads(ret.src[j].st))
              => /\ Cardinality(EntriesFor(ret.value.unused_vars, "x")) = 1
                 /\ \A k \in EntriesFor(ret.value.unused_vars, "x") :
                       /\ ret.value.unused_vars[k].line = LastBindingLine(TreeOf(ret.src), "x")
                       /\ (\A j \in 1..Len(ret.src) : j # i => "x" \notin Binds(ret.src[j].st))
                             => ret.value.unused_vars[k].line = i
        /\ (\E i \in 1..Len(ret.src) : ret.src[i].st = Assign("_x", Const))
              => EntriesFor(ret.value.unused_vars, "_x") = {}

\* detect_errors has reported "x = 10" in a source that also holds "_x = 10"
C4_Witness ==
    /\ Detected
    /\ \E i \in 1..Len(ret.src) : ret.src[i].st = AssignX
    /\ \E i \in 1..Len(ret.src) : ret.src[i].st = Assign("_x", Const)
    /\ EntriesFor(ret.value.unused_vars, "x") # {}

\* the name an import statement binds
BoundName(st) == IF st.asname # "" THEN st.asname ELSE Head(st.mod)

\* C5: an import whose bound name occurs as the base of an attribute access
\* is not reported: unused_imports has no entry for that import (none
\* carries its line), as with "import os.path as p" and a later
\* "p.join(...)", and with "import os" referenced only as "os.path".
C5_AttributeBaseIsUse ==
    Detected =>
        \A i \in 1..Len(ret.src) :
            (ret.src[i].st.kind = "import" /\ BoundName(ret.src[i].st) \in AttrBases(ret.src))
            => \A k \in 1..Len(ret.value.unused_imports) :
                   ret.value.unused_imports[k].line # i

\* detect_errors has returned for "import os.path as p" followed by
\* "p.join(x)"
C5_Witness ==
    /\ Detected
    /\ \E i \in 1..Len(ret.src) : \E j \in (i + 1)..Len(ret.src) :
          /\ ret.src[i].st = Import(<<"os", "path">>, "p")
          /\ ret.src[j].st = ExprS(Meth("p", "x"))


Estimators == {"get_complexity_score", "_estimate_complexity"}

\* an aggregate estimator has returned
Estimated == ret.op \in Estimators

\* the estimator of a call record, applied to another source
EstimateBy(op, src) ==
    IF op = "get_complexity_score" THEN get_complexity_score(src)
    ELSE _estimate_complexity(src)

\* a finding list with exactly one entry, for name at line
OneFinding(findings, name, line) ==
    /\ Len(findings) = 1
    /\ findings[1].name = name
    /\ findings[1].line = line

\* C6: for "import os\n\ndef example():\n    x = 10\n    return 5\n"
\* parse_code succeeds, detect_errors returns exactly one unused import (os,
\* line 1) and exactly one unused variable (x, line 4), and the aggregate
\* complexity score is 2.
C6_ScenarioExample ==
    ret.src = Scenario1 =>
        /\ ret.op = "parse_code" => ret.value.success = TRUE
        /\ Detected =>
              /\ OneFinding(ret.value.unused_imports, <<"os">>, 1)
              /\ OneFinding(ret.value.unused_vars, "x", 4)
        /\ Estimated => ret.value = 2

\* the detector has returned for the first scenario after the parser
\* succeeded on it and handed over its tree
C6_Witness ==
    /\ ret.src = Scenario1
    /\ Detected
    /\ ret.tree = ast_tree
    /\ ast_tree # None

\* C7: for "def f(n):\n    if n > 0:\n        return 1\n    else:\n
\*         return -1\n" detect_errors returns no unused variable and no
\* unused import, and the aggregate complexity score is 3.
C7_ScenarioBranch ==
    ret.src = Scenario2 =>
        /\ Detected => ret.value = NoFindings
        /\ Estimated => ret.value = 3

\* the collections ran on the second scenario and found nothing
C7_Witness ==
    /\ ret.src = Scenario2
    /\ Detected
    /\ ret.ran # <<>>
    /\ ret.value = NoFindings

\* the weighting table of the aggregate score
Weight(type) ==
    CASE type \in {"If", "For", "While"}        -> 1
      [] type = "FunctionDef"                   -> 2
      [] type = "ClassDef"                      -> 3
      [] type \in {"Try", "ExceptHandler"}      -> 1
      [] type = "Lambda"                        -> 1
      [] OTHER                                  -> 0

RECURSIVE WeightedCount(_, _)
WeightedCount(tree, n) ==
    IF n = 0 THEN 0 ELSE Weight(tree[n].type) + WeightedCount(tree, n - 1)

\* C8: the aggregate score of a parsable source is the weighted node count
\* of its tree (conditional, for, while, try, handler and lambda 1 each,
\* function definition 2, class definition 3) for both aggregate
\* estimators, which therefore return the same integer.
C8_WeightedCount ==
    (Estimated /\ Valid(ret.src)) =>
        /\ ret.value = WeightedCount(TreeOf(ret.src), Len(TreeOf(ret.src)))
        /\ get_complexity_score(ret.src) = _estimate_complexity(ret.src)

\* the sources obtained from src by adding one conditional, "if n > 0:" with
\* the body "pass", as the first statement of a function body
WithOneMoreConditional(src) ==
    {SubSeq(src, 1, h)
        \o <<L(src[h + 1].ind, IfS(Cmp("n"))), L(src[h + 1].ind + 1, PassS)>>
        \o SubSeq(src, h + 1, Len(src)) :
     h \in {h \in 1..(Len(src) - 1) :
               /\ src[h].st.kind = "def"
               /\ src[h + 1].st.kind # "blank"}}

\* C9: adding one more conditional inside a function of a parsable source,
\* with nothing else changed, gives a source that parses and whose
\* complexity score is not below the score before the addition.
C9_Monotone ==
    (Estimated /\ Valid(ret.src)) =>
        \A v \in WithOneMoreConditional(ret.src) :
            /\ Valid(v)
            /\ EstimateBy(ret.op, v) >= ret.value

\* an estimator has scored a source with a function that already holds a
\* conditional
C9_Witness ==
    /\ Estimated
    /\ Valid(ret.src)
    /\ WithOneMoreConditional(ret.src) # {}
    /\ ret.value >= 3

\* C10: a detect_errors call returns what a fresh detector returns for the
\* same code and tree, whatever the detector holds from earlier calls; a
\* call that repeats the previous call's arguments returns the identical
\* lists, in the same order, and leaves the tree as it was.
C10_Idempotent ==
    /\ [](ret.op = "detect_errors" =>
            /\ ret.value = detect_errors(ret.src, ret.tree, <<>>, <<>>).value
            /\ ret.tree # None => ret.tree = ast_tree)
    /\ [][(/\ ret.op = "detect_errors"
           /\ ret'.op = "detect_errors"
           /\ ret'.src = ret.src
           /\ ret'.tree = ret.tree)
          => /\ ret'.value = ret.value
             /\ ast_tree' = ast_tree]_vars

\* detect_errors has returned findings of both kinds for a tree passed by
\* the caller
C10_Witness ==
    /\ ret.op = "detect_errors"
    /\ ~ret.raised
    /\ ret.tree # None
    /\ ret.value.unused_vars # <<>>
    /\ ret.value.unused_imports # <<>>
    /\ unused_vars = ret.value.unused_vars

\* C11: for a source that parses, every entry of unused_vars and of
\* unused_imports that detect_errors returns carries a line L with
\* 1 <= L <= the number of lines of the source.
C11_LinesInRange ==
    Detected =>
        /\ \A k \in 1..Len(ret.value.unused_vars) :
              ret.value.unused_vars[k].line \in 1..Len(ret.src)
        /\ \A k \in 1..Len(ret.value.unused_imports) :
              ret.value.unused_imports[k].line \in 1..Len(ret.src)

\* detect_errors has reported an import on the first line and a variable on
\* the last line of a source of several lines
C11_Witness ==
    /\ Detected
    /\ Len(ret.src) > 1
    /\ \E k \in 1..Len(ret.value.unused_imports) : ret.value.unused_imports[k].line = 1
    /\ \E k \in 1..Len(ret.value.unused_vars) :
          ret.value.unused_vars[k].line = Len(ret.src)

\* an exception is raised inside the binding or usage collection on tree
CollectionRaises(tree) ==
    WalkRaises(tree, "_find_unused_variables") \/ WalkRaises(tree, "_find_unused_imports")

\* C12: when an exception is raised inside the binding or usage collection
\* of a detect_errors call, also one that was given a tree by the caller,
\* the exception does not leave detect_errors: the call returns
\* {unused_vars: [], unused_imports: []}.
C12_DetectionFailureSwallowed ==
    (ret.op = "detect_errors" /\ ret.tree # None /\ CollectionRaises(ret.tree)) =>
        /\ ~ret.raised
        /\ ret.value = NoFindings

\* C13: when the argument of parse_code parses and _extract_metadata raises
\* on its tree, the result has success = true, the tree, and error = None:
\* the failure of the metadata extraction is not reported as an error.
C13_MetadataFailureSwallowed ==
    (/\ ret.op = "parse_code"
     /\ Valid(ret.src)
     /\ WalkRaises(TreeOf(ret.src), "_extract_metadata")) =>
        /\ ~ret.raised
        /\ ret.value.success = TRUE
        /\ ret.value.ast = TreeOf(ret.src)
        /\ ret.value.error = None

\* C14: on a source string that fails to parse each aggregate estimator
\* returns 0 and does not raise, and on every string the score it returns is
\* a non-negative integer.
C14_EstimatorTotal ==
    Estimated =>
        /\ ~ret.raised
        /\ ret.value \in Nat
        /\ ~Valid(ret.src) => ret.value = 0

\* an estimator has returned 0 for a source that holds a function
\* definition and fails to parse
C14_Witness ==
    /\ Estimated
    /\ ~Valid(ret.src)
    /\ \E i \in 1..Len(ret.src) : ret.src[i].st.kind = "def"
    /\ ret.value = 0

\* C15: after a detect_errors call has returned, the fields unused_vars and
\* unused_imports of the detector equal the lists it returned, also when
\* its input failed to parse, and get_error_summary called next reports the
\* counts of those lists.
C15_FieldsAreLastResult ==
    /\ []((ret.op = "detect_errors" /\ ~ret.raised) =>
            /\ unused_vars = ret.value.unused_vars
            /\ unused_imports = ret.value.unused_imports)
    /\ [][(ret.op = "detect_errors" /\ ~ret.raised /\ ret'.op = "get_error_summary")
          => ret'.value = get_error_summary(ret.value.unused_vars,
                                            ret.value.unused_imports)]_vars

\* the import statements of a source that bind a name
ImportLines(src) ==
    {i \in 1..Len(src) :
        \/ src[i].st.kind = "import"
        \/ src[i].st.kind = "from" /\ src[i].st.id # "*"}

\* the name an import statement binds: the alias when one is given, else the
\* imported name of "from M import X", else the root segment of "import X.Y"
ImportKey(st) ==
    IF st.asname # "" THEN st.asname
    ELSE IF st.kind = "from" THEN st.id
    ELSE Head(st.mod)

\* the full name of what an import statement imports: X.Y of "import X.Y",
\* M.X of "from M import X" (X when M is absent)
FullName(st) == IF st.kind = "from" THEN st.mod \o <<st.id>> ELSE st.mod

\* the place in the walk of the import statement of line i
WalkPos(tree, i) ==
    LET nodes == ast_walk(tree)
    IN  CHOOSE n \in 1..Len(nodes) :
            nodes[n].type \in {"Import", "ImportFrom"} /\ nodes[n].lineno = i

\* the import statement binding key that the walk visits last
LastImportOf(src, key) ==
    LET B == {i \in ImportLines(src) : ImportKey(src[i].st) = key}
    IN  CHOOSE i \in B : \A j \in B : WalkPos(TreeOf(src), j) <= WalkPos(TreeOf(src), i)

\* the bound names of the imports that the usage pass has not collected
UnusedImportKeys(src) ==
    {ImportKey(src[i].st) : i \in ImportLines(src)} \ used_names_of(TreeOf(src))

\* C16 as stated: there is exactly one unused-import finding per bound name
\* absent from the usage set, and it carries the bound name (alias, else
\* imported name, else root segment) and the line of the binding.
C16_AsStated ==
    Detected =>
        /\ Len(ret.value.unused_imports) = Cardinality(UnusedImportKeys(ret.src))
        /\ \A key \in UnusedImportKeys(ret.src) :
              \E k \in 1..Len(ret.value.unused_imports) :
                  /\ ret.value.unused_imports[k].name = <<key>>
                  /\ ret.value.unused_imports[k].line = LastImportOf(ret.src, key)

\* C16 amended: there is exactly one unused-import finding per bound name
\* absent from the usage set the detector collects; it carries the line of
\* the import statement binding that name which the walk visits last, and
\* as its name the full imported name of that statement (X.Y for
\* "import X.Y" with or without alias, M.X for "from M import X"), not
\* the bound name.
C16_FindingPerUnusedImport ==
    Detected =>
        /\ Len(ret.value.unused_imports) = Cardinality(UnusedImportKeys(ret.src))
        /\ \A key \in UnusedImportKeys(ret.src) :
              \E k \in 1..Len(ret.value.unused_imports) :
                  /\ ret.value.unused_imports[k].name
                        = FullName(ret.src[LastImportOf(ret.src, key)].st)
                  /\ ret.value.unused_imports[k].line = LastImportOf(ret.src, key)

\* detect_errors has reported two imports, one of them under a full name
\* that differs from the name it binds
C16_Witness ==
    /\ Detected
    /\ Len(ret.value.unused_imports) = 2
    /\ \E key \in UnusedImportKeys(ret.src) :
          FullName(ret.src[LastImportOf(ret.src, key)].st) # <<key>>

\* C17: names that start with an underscore are never recorded as bindings:
\* for a valid source no entry of unused_vars is for a name that starts
\* with an underscore, and no entry of unused_imports is for an import
\* statement whose bound name (alias, else imported name) starts with one.
C17_UnderscoreNeverBound ==
    Detected =>
        /\ \A k \in 1..Len(ret.value.unused_vars) :
              ~startswith_underscore(ret.value.unused_vars[k].name)
        /\ \A i \in ImportLines(ret.src) :
              startswith_underscore(ImportKey(ret.src[i].st))
              => \A k \in 1..Len(ret.value.unused_imports) :
                     ret.value.unused_imports[k].line # i

\* the names a source reads: identifiers in a read context, bases of
\* attribute accesses and callees of direct calls
ReadNames(src) == UNION {Reads(src[j].st) : j \in 1..Len(src)}

\* the names a source stores to: targets of assignments and of for loops
StoredNames(src) ==
    {src[j].st.id : j \in {j \in 1..Len(src) : src[j].st.kind \in {"assign", "for"}}}

\* C18: only reads count as uses: an import whose bound name occurs
\* elsewhere in a valid source as an assignment target and nowhere in a
\* read context (nor as attribute base or callee) is reported in
\* unused_imports.
C18_StoreIsNoUse ==
    Detected =>
        \A i \in ImportLines(ret.src) :
            LET key == ImportKey(ret.src[i].st)
            IN  (key \in StoredNames(ret.src) /\ key \notin ReadNames(ret.src))
                => \E k \in 1..Len(ret.value.unused_imports) :
                       ret.value.unused_imports[k].line = LastImportOf(ret.src, key)

\* the lines of the statements of a source that bind name as a variable
BindingLines(src, name) == {j \in 1..Len(src) : name \in Binds(src[j].st)}

\* the names a source binds as variables
BoundNames(src) == UNION {Binds(src[j].st) : j \in 1..Len(src)}

\* the line of the binding of name that the walk of the tree visits last
LastVisitedBinding(tree, name) ==
    LET nodes == ast_walk(tree)
        B == {n \in 1..Len(nodes) :
                \/ nodes[n].type = "Assign"
                   /\ \E t \in 1..Len(nodes[n].targets) :
                         nodes[n].targets[t] = [type |-> "Name", id |-> name]
                \/ nodes[n].type = "FunctionDef" /\ name \in Range(nodes[n].args)}
        last == CHOOSE n \in B : \A m \in B : m <= n
    IN  nodes[last].lineno

\* C19: when a name that does not start with an underscore is bound more
\* than once, by simple assignments or function parameters, and is never
\* read, unused_vars has exactly one entry for it, with the line of the
\* binding that the tree traversal visits last; a name bound only as a
\* parameter is entered with the line of its function definition.
C19_LastBindingWins ==
    Detected =>
        \A name \in BoundNames(ret.src) :
            (~startswith_underscore(name) /\ name \notin ReadNames(ret.src)) =>
                /\ Cardinality(EntriesFor(ret.value.unused_vars, name)) = 1
                /\ \A k \in EntriesFor(ret.value.unused_vars, name) :
                      /\ ret.value.unused_vars[k].line
                            = LastVisitedBinding(TreeOf(ret.src), name)
                      /\ \A j \in BindingLines(ret.src, name) :
                            (BindingLines(ret.src, name) = {j} /\ ret.src[j].st.kind = "def")
                            => ret.value.unused_vars[k].line = j

\* detect_errors has reported a name bound by a parameter and by two
\* assignments at the line of a binding that is not the last one in the text
C19_Witness ==
    /\ Detected
    /\ \E name \in BoundNames(ret.src) :
          /\ Cardinality(BindingLines(ret.src, name)) > 2
          /\ \E j \in BindingLines(ret.src, name) : ret.src[j].st.kind = "def"
          /\ \E k \in EntriesFor(ret.value.unused_vars, name) :
                \E j \in BindingLines(ret.src, name) : j > ret.value.unused_vars[k].line

\* the stored tree has a function definition with the name
HasFunction(tree, function_name) ==
    tree # None /\ MatchingDefs(ast_walk(tree), function_name) # {}

\* C20: a parse_code call that fails leaves the stored ast_tree as it was,
\* and the stored tree changes only by a parse that succeeds, which stores
\* the tree it returns; so after a successful parse of A and a failed parse
\* of B get_function_info answers from the tree of A.  get_function_info
\* returns None exactly when no tree is stored (no parse has succeeded) or
\* the stored tree has no function definition of the requested name, and
\* otherwise the name, line and parameters of that definition.
C20_FailedParseKeepsTree ==
    /\ [][(ret'.op = "parse_code" /\ ret'.value.success = FALSE)
          => ast_tree' = ast_tree]_vars
    /\ [][ast_tree' # ast_tree
          => /\ ret'.op = "parse_code"
             /\ ret'.value.success = TRUE
             /\ ast_tree' = ret'.value.ast
             /\ ast_tree' # None]_vars
    /\ []((ret.op = "get_function_info" /\ ~ret.raised) =>
            /\ (ret.value = None) <=> ~HasFunction(ast_tree, ret.function_name)
            /\ ret.value # None =>
                  /\ ret.value.name = ret.function_name
                  /\ \E n \in 1..Len(ast_tree) :
                        /\ ast_tree[n].type = "FunctionDef"
                        /\ ast_tree[n].name = ret.value.name
                        /\ ast_tree[n].lineno = ret.value.line
                        /\ ast_tree[n].args = ret.value.args)

\* a parse has failed on a parser that holds the tree of an earlier source,
\* from which get_function_info answers for f
C20_Witness ==
    /\ ret.op = "parse_code"
    /\ ret.value.success = FALSE
    /\ ast_tree # None
    /\ ast_tree # TreeOf(code)
    /\ get_function_info(ast_tree, "f").value # None


====
